---- MODULE Spec2Model ----
(***************************************************************************)
(* Journey lifecycle of the fleet-management application: the persisted    *)
(* FleetData file (journeys, users, cars, drivers, systemStats) and the    *)
(* route handlers that read it, change it and write it back.               *)
(*                                                                         *)
(* Every handler is an operator from the data it read (and its request     *)
(* body) to a response code and the data it leaves in the file; an action  *)
(* applies one handler to the file.  Request fields that no handler reads  *)
(* back (names, coordinates, free-text reasons) are left out.  A handler   *)
(* reads, changes and writes the file without yielding in between, so an   *)
(* action is one whole call.                                               *)
(*                                                                         *)
(* Spec       the calls of one server, every write succeeding              *)
(* SpecAdmin  requests, admin assignments and the admin's status calls     *)
(* SpecIO     the journey-lifecycle calls when a write may fail            *)
(* SpecRace   admin assignments of two servers that share the file         *)
(* SpecAuth   login and GET /api/data over any stored users and drivers    *)
(* SpecClient the user dashboard with its booking cooldown                 *)
(* SpecCooldown the dashboard alone, its cooldown timer firing fairly      *)
(* SpecDrivers the calls that create, change and read drivers              *)
(* SpecUsers  the calls that create, change and list users                 *)
(* SpecSession the browser's auth state and its protected routes          *)
(***************************************************************************)
EXTENDS Integers, Sequences, FiniteSets

\* ------------------------------------------------------------------ bounds
MaxCalls == 4         \* calls answered with 200 in a history
MaxClock == 2         \* last value of Date.now() in a history

\* ------------------------------------------------------------- the entities
UserIds == {"u1", "u2"}
CarIds == {"c1", "c2"}
DriverIds == {"d1"}

JourneyStatus == {"requested", "in-progress", "completed", "cancelled"}
CarStatus == {"available", "in-use", "servicing", "cleaning"}

\* endTime: null
NoTime == 0
\* a request body without journeyId (or with a falsy one)
NoJourneyId == 0

\* request bodies: the ids of the file, one id that names nothing, and ""
\* for a field that is missing
UserInputs == UserIds \cup {"", "u9"}
CarInputs == CarIds \cup {"", "c9"}
DriverInputs == DriverIds \cup {"", "d9"}
JourneyInputs == NoJourneyId..(MaxClock + 1)
Waypoints == {"", "w1", "w2"}

VARIABLES
    file,    \* the content of demoData.json
    clock,   \* Date.now()
    calls,   \* how many calls were answered with 200
    resp,    \* the last call answered with 200: endpoint and request body
    io,      \* the last call of a server whose writes may fail: its endpoint,
             \* its response code and the data it read
    procs,   \* the calls of two servers that share the file, each between
             \* its read and its write
    accounts, \* the stored users and drivers that a login is checked against
    reply,   \* the response to the last login or GET /api/data
    client   \* the user dashboard: its React state and its local storage

\* the parts of the state that the journey calls of one server, each run to
\* its end with its write done, leave alone
others == <<io, procs, accounts, reply, client>>

vars == <<file, clock, calls, resp, io, procs, accounts, reply, client>>

\* ---------------------------------------------------------------- helpers
\* Array.prototype.filter(...).length
Count(f, S) == Cardinality({x \in DOMAIN f : f[x] \in S})

CountStatus(js, st) == Cardinality({i \in 1..Len(js) : js[i].status = st})

\* data.journeys.findIndex(j => j.id === journeyId); 0 stands for -1
JourneyIndex(js, jid) ==
    IF \E i \in 1..Len(js) : js[i].id = jid
    THEN CHOOSE i \in 1..Len(js) :
            /\ js[i].id = jid
            /\ \A k \in 1..(i - 1) : js[k].id # jid
    ELSE 0

\* data.journeys.findIndex(j => j.id === journeyId && j.driverId === driverId)
DriverJourneyIndex(js, jid, did) ==
    IF \E i \in 1..Len(js) : js[i].id = jid /\ js[i].driverId = did
    THEN CHOOSE i \in 1..Len(js) :
            /\ js[i].id = jid /\ js[i].driverId = did
            /\ \A k \in 1..(i - 1) : ~(js[k].id = jid /\ js[k].driverId = did)
    ELSE 0

Reply(c, d) == [code |-> c, data |-> d]

\* ------------------------------------------------- POST /api/journeys/request
NewJourney(userId, now) ==
    [id |-> now, userId |-> userId, carId |-> "", driverId |-> "",
     status |-> "requested", endTime |-> NoTime,
     waypoints |-> <<>>, routeChanges |-> <<>>]

\* the handler without its check for a pending request
JourneyRequestUnchecked(d, userId, now) ==
    IF userId = "" THEN Reply(400, d)
    ELSE IF userId \notin DOMAIN d.users THEN Reply(404, d)
    ELSE Reply(200,
            [d EXCEPT !.journeys = Append(@, NewJourney(userId, now)),
                      !.stats.pendingRequests = @ + 1])

JourneyRequest(d, userId, now) ==
    IF userId = "" THEN Reply(400, d)
    ELSE IF userId \notin DOMAIN d.users THEN Reply(404, d)
    ELSE IF \E i \in 1..Len(d.journeys) :
                d.journeys[i].userId = userId /\ d.journeys[i].status = "requested"
    THEN Reply(409, d)
    ELSE Reply(200,
            [d EXCEPT !.journeys = Append(@, NewJourney(userId, now)),
                      !.stats.pendingRequests = @ + 1])

\* ------------------------------------------- POST /api/admin/journeys/assign
\* the handler without its check that the car is available
AdminAssignAnyCar(d, jid, cid, did) ==
    LET ji == JourneyIndex(d.journeys, jid) IN
    IF jid = NoJourneyId \/ cid = "" \/ did = "" THEN Reply(400, d)
    ELSE IF ji = 0 THEN Reply(404, d)
    ELSE IF d.journeys[ji].status # "requested" THEN Reply(400, d)
    ELSE IF cid \notin DOMAIN d.cars THEN Reply(404, d)
    ELSE IF did \notin DOMAIN d.drivers THEN Reply(404, d)
    ELSE IF d.drivers[did] THEN Reply(400, d)
    ELSE
        LET js == [d.journeys EXCEPT ![ji].carId = cid,
                                     ![ji].driverId = did,
                                     ![ji].status = "in-progress"]
            cs == [d.cars EXCEPT ![cid] = "in-use"]
        IN Reply(200,
              [d EXCEPT !.journeys = js,
                        !.cars = cs,
                        !.stats.pendingRequests = CountStatus(js, "requested"),
                        !.stats.activeJourneys = CountStatus(js, "in-progress"),
                        !.stats.availableCars = Count(cs, {"available"})])

\* the handler without its update of the car
AdminAssignCarKept(d, jid, cid, did) ==
    LET ji == JourneyIndex(d.journeys, jid) IN
    IF jid = NoJourneyId \/ cid = "" \/ did = "" THEN Reply(400, d)
    ELSE IF ji = 0 THEN Reply(404, d)
    ELSE IF d.journeys[ji].status # "requested" THEN Reply(400, d)
    ELSE IF cid \notin DOMAIN d.cars THEN Reply(404, d)
    ELSE IF d.cars[cid] # "available" THEN Reply(400, d)
    ELSE IF did \notin DOMAIN d.drivers THEN Reply(404, d)
    ELSE IF d.drivers[did] THEN Reply(400, d)
    ELSE
        LET js == [d.journeys EXCEPT ![ji].carId = cid,
                                     ![ji].driverId = did,
                                     ![ji].status = "in-progress"]
        IN Reply(200,
            [d EXCEPT !.journeys = js,
                      !.stats.pendingRequests = CountStatus(js, "requested"),
                      !.stats.activeJourneys = CountStatus(js, "in-progress")])

AdminAssign(d, jid, cid, did) ==
    LET ji == JourneyIndex(d.journeys, jid) IN
    IF jid = NoJourneyId \/ cid = "" \/ did = "" THEN Reply(400, d)
    ELSE IF ji = 0 THEN Reply(404, d)
    ELSE IF d.journeys[ji].status # "requested" THEN Reply(400, d)
    ELSE IF cid \notin DOMAIN d.cars THEN Reply(404, d)
    ELSE IF d.cars[cid] # "available" THEN Reply(400, d)
    ELSE IF did \notin DOMAIN d.drivers THEN Reply(404, d)
    ELSE IF d.drivers[did] THEN Reply(400, d)
    ELSE
        LET cars == [d.cars EXCEPT ![cid] = "in-use"]
            js == [d.journeys EXCEPT ![ji].carId = cid,
                                     ![ji].driverId = did,
                                     ![ji].status = "in-progress"]
        IN Reply(200,
            [d EXCEPT !.cars = cars,
                      !.journeys = js,
                      !.stats.pendingRequests = CountStatus(js, "requested"),
                      !.stats.activeJourneys = CountStatus(js, "in-progress"),
                      !.stats.availableCars = Count(cars, {"available"})])

\* ------------------------------------------------- PUT /api/journeys/assign
LegacyAssign(d, jid, cid, did) ==
    LET ji == JourneyIndex(d.journeys, jid) IN
    IF jid = NoJourneyId \/ cid = "" \/ did = "" THEN Reply(400, d)
    ELSE IF ji = 0 THEN Reply(404, d)
    ELSE
        LET js == [d.journeys EXCEPT ![ji].carId = cid,
                                     ![ji].driverId = did,
                                     ![ji].status = "in-progress"]
            cars == IF cid \in DOMAIN d.cars
                    THEN [d.cars EXCEPT ![cid] = "in-use"]
                    ELSE d.cars
        IN Reply(200, [d EXCEPT !.journeys = js, !.cars = cars])

\* Math.max(0, (n || 0) - 1)
Decrement(n) == IF n - 1 > 0 THEN n - 1 ELSE 0

\* -------------------------------------------------- POST /api/journeys/cancel
\* the handler without its checks for a journey that has ended
CancelJourneyUnchecked(d, jid, now) ==
    LET ji == JourneyIndex(d.journeys, jid) IN
    IF jid = NoJourneyId THEN Reply(400, d)
    ELSE IF ji = 0 THEN Reply(404, d)
    ELSE
        LET was == d.journeys[ji].status IN
        Reply(200,
            [d EXCEPT !.journeys[ji].status = "cancelled",
                      !.journeys[ji].endTime = now,
                      !.stats.pendingRequests =
                          IF was = "requested" THEN Decrement(@) ELSE @,
                      !.stats.activeJourneys =
                          IF was = "in-progress" THEN Decrement(@) ELSE @])

CancelJourney(d, jid, now) ==
    LET ji == JourneyIndex(d.journeys, jid) IN
    IF jid = NoJourneyId THEN Reply(400, d)
    ELSE IF ji = 0 THEN Reply(404, d)
    ELSE IF d.journeys[ji].status = "completed" THEN Reply(400, d)
    ELSE IF d.journeys[ji].status = "cancelled" THEN Reply(400, d)
    ELSE
        LET was == d.journeys[ji].status IN
        Reply(200,
            [d EXCEPT !.journeys[ji].status = "cancelled",
                      !.journeys[ji].endTime = now,
                      !.stats.pendingRequests =
                          IF was = "requested" THEN Decrement(@) ELSE @,
                      !.stats.activeJourneys =
                          IF was = "in-progress" THEN Decrement(@) ELSE @])

\* ------------------------------------------------- POST /api/journeys/dropoff
\* the handler, were it to hand the journey's car back
DropoffReleasesCar(d, jid, now) ==
    LET ji == JourneyIndex(d.journeys, jid) IN
    IF jid = NoJourneyId THEN Reply(400, d)
    ELSE IF ji = 0 THEN Reply(404, d)
    ELSE IF d.journeys[ji].status # "in-progress" THEN Reply(400, d)
    ELSE Reply(200,
            [d EXCEPT !.journeys[ji].status = "completed",
                      !.journeys[ji].endTime = now,
                      !.stats.activeJourneys = Decrement(@),
                      !.cars = [c \in DOMAIN d.cars |->
                                  IF c = d.journeys[ji].carId
                                  THEN "available" ELSE d.cars[c]]])

Dropoff(d, jid, now) ==
    LET ji == JourneyIndex(d.journeys, jid) IN
    IF jid = NoJourneyId THEN Reply(400, d)
    ELSE IF ji = 0 THEN Reply(404, d)
    ELSE IF d.journeys[ji].status # "in-progress" THEN Reply(400, d)
    ELSE Reply(200,
            [d EXCEPT !.journeys[ji].status = "completed",
                      !.journeys[ji].endTime = now,
                      !.stats.activeJourneys = Decrement(@)])

\* -------------------------------------------- POST /api/journeys/route-change
\* the handler, were it to put the new waypoint first
RouteChangeInFront(d, jid, wp, now) ==
    LET ji == JourneyIndex(d.journeys, jid) IN
    IF jid = NoJourneyId \/ wp = "" THEN Reply(400, d)
    ELSE IF ji = 0 THEN Reply(404, d)
    ELSE IF d.journeys[ji].status # "in-progress" THEN Reply(400, d)
    ELSE Reply(200,
            [d EXCEPT !.journeys[ji].waypoints = <<wp>> \o @,
                      !.journeys[ji].routeChanges =
                          Append(@, [type |-> "waypoint_added",
                                     timestamp |-> now,
                                     waypoint |-> wp])])

RouteChange(d, jid, wp, now) ==
    LET ji == JourneyIndex(d.journeys, jid) IN
    IF jid = NoJourneyId \/ wp = "" THEN Reply(400, d)
    ELSE IF ji = 0 THEN Reply(404, d)
    ELSE IF d.journeys[ji].status # "in-progress" THEN Reply(400, d)
    ELSE Reply(200,
            [d EXCEPT !.journeys[ji].waypoints = Append(@, wp),
                      !.journeys[ji].routeChanges =
                          Append(@, [type |-> "waypoint_added",
                                     timestamp |-> now,
                                     waypoint |-> wp])])

\* ------------------------------------------ POST /api/drivers/journey/status
\* (startTime, which the handler sets when status is 'in-progress', is not
\* part of the modelled journey)
SetJourneyStatus(d, ji, st, now) ==
    [d EXCEPT !.journeys[ji].status = st,
              !.journeys[ji].endTime = IF st = "completed" THEN now ELSE @]

\* the handler, were it to look the journey up by its id alone
DriverJourneyStatusAnyDriver(d, did, jid, st, now) ==
    LET ji == JourneyIndex(d.journeys, jid) IN
    IF did = "" \/ jid = NoJourneyId \/ st = "" THEN Reply(400, d)
    ELSE IF ji = 0 THEN Reply(404, d)
    ELSE Reply(200, SetJourneyStatus(d, ji, st, now))

DriverJourneyStatus(d, did, jid, st, now) ==
    LET ji == DriverJourneyIndex(d.journeys, jid, did) IN
    IF did = "" \/ jid = NoJourneyId \/ st = "" THEN Reply(400, d)
    ELSE IF ji = 0 THEN Reply(404, d)
    ELSE Reply(200, SetJourneyStatus(d, ji, st, now))

\* --------------------- POST /api/drivers, action 'update-journey-status'
DriversAction(d, did, jid, st, now) ==
    LET ji == DriverJourneyIndex(d.journeys, jid, did) IN
    IF did = "" THEN Reply(400, d)
    ELSE IF ji = 0 THEN Reply(500, d)
    ELSE Reply(200, SetJourneyStatus(d, ji, st, now))

\* ------------------------------------------------ PUT /api/admin/cars/status
\* the handler, were it to refuse to free a car that a journey is using
AdminCarStatusGuarded(d, cid, st) ==
    IF cid = "" \/ st = "" THEN Reply(400, d)
    ELSE IF cid \notin DOMAIN d.cars THEN Reply(404, d)
    ELSE IF /\ st = "available"
            /\ \E i \in 1..Len(d.journeys) :
                  d.journeys[i].carId = cid /\ d.journeys[i].status = "in-progress"
    THEN Reply(400, d)
    ELSE
        LET cars == [d.cars EXCEPT ![cid] = st] IN
        Reply(200, [d EXCEPT !.cars = cars,
                             !.stats.availableCars = Count(cars, {"available"})])

AdminCarStatus(d, cid, st) ==
    IF cid = "" \/ st = "" THEN Reply(400, d)
    ELSE IF cid \notin DOMAIN d.cars THEN Reply(404, d)
    ELSE
        LET cars == [d.cars EXCEPT ![cid] = st] IN
        Reply(200, [d EXCEPT !.cars = cars,
                             !.stats.availableCars = Count(cars, {"available"})])

\* ------------------------------ PUT car status, the handler without stats
LegacyCarStatus(d, cid, st) ==
    IF cid = "" \/ st = "" THEN Reply(400, d)
    ELSE IF cid \notin DOMAIN d.cars THEN Reply(404, d)
    ELSE Reply(200, [d EXCEPT !.cars[cid] = st])

\* --------------------------------------------- PUT /api/admin/drivers/status
AdminDriverStatus(d, did, onLeave) ==
    IF did = "" THEN Reply(400, d)
    ELSE IF did \notin DOMAIN d.drivers THEN Reply(404, d)
    ELSE
        LET drivers == [d.drivers EXCEPT ![did] = onLeave] IN
        Reply(200, [d EXCEPT !.drivers = drivers,
                             !.stats.driversOnLeave = Count(drivers, {TRUE})])

\* ---------------------------------------------- PUT /api/admin/users/status
AdminUserStatus(d, uid, isActive) ==
    IF uid = "" THEN Reply(400, d)
    ELSE IF uid \notin DOMAIN d.users THEN Reply(404, d)
    ELSE Reply(200, [d EXCEPT !.users[uid] = isActive])

\* ------------------------------------------------------------ POST /api/data
\* 'update-system-stats' merges the given systemStats over the stored ones (a
\* missing payload makes the handler throw: 500), 'update-data' writes the
\* payload in place of the whole file, 'reset-data' writes back what was read.
DataPost(d, action, hasData, updateData) ==
    IF action = "" THEN Reply(400, d)
    ELSE IF action = "update-system-stats"
    THEN IF hasData
         THEN Reply(200, [d EXCEPT !.stats = updateData.stats])
         ELSE Reply(500, d)
    ELSE IF action = "update-data"
    THEN IF hasData THEN Reply(200, updateData) ELSE Reply(400, d)
    ELSE IF action = "reset-data" THEN Reply(200, d)
    ELSE Reply(400, d)

\* ------------------------------------------------------------------- state
\* demoData.json itself is not among the sources: the start is a file without
\* journeys, with every car available, the driver at work and stats that
\* agree with the entities.
InitData ==
    [journeys |-> <<>>,
     users |-> [u \in UserIds |-> TRUE],
     cars |-> [c \in CarIds |-> "available"],
     drivers |-> [x \in DriverIds |-> FALSE],
     stats |-> [pendingRequests |-> 0, activeJourneys |-> 0,
                availableCars |-> Cardinality(CarIds), driversOnLeave |-> 0]]

NoCall ==
    [op |-> "none", journeyId |-> NoJourneyId, carId |-> "", driverId |-> "",
     userId |-> "", status |-> "", onLeave |-> FALSE, waypoint |-> "",
     action |-> "", isActive |-> FALSE]

\* a part of the state that a specification does not use
Unused == <<>>

\* no call has been made yet, nobody has logged in yet, no dashboard is open
NoIO == [op |-> "none", code |-> 0, read |-> InitData]

NoReply ==
    [op |-> "none", code |-> 0, email |-> "", password |-> "",
     user |-> [id |-> ""], users |-> <<>>, drivers |-> <<>>]

InitialBookingState ==
    [isBookingAllowed |-> TRUE, cooldownRemaining |-> 0,
     hasActiveRequest |-> FALSE]

NoClient ==
    [open |-> FALSE, booking |-> NoTime, selectedDestination |-> FALSE,
     bookingState |-> InitialBookingState, userJourneys |-> <<>>]

Init ==
    /\ file = InitData
    /\ clock = 1
    /\ calls = 0
    /\ resp = NoCall
    /\ io = Unused
    /\ procs = Unused
    /\ accounts = Unused
    /\ reply = Unused
    /\ client = Unused

\* what every call does to the state: the handler's data is the file.  A call
\* answered with an error leaves the file as it was and is not remembered.
Handled(r, call) ==
    /\ file' = r.data
    /\ calls' = IF r.code = 200 THEN calls + 1 ELSE calls
    /\ resp' = IF r.code = 200 THEN call ELSE resp
    /\ UNCHANGED <<clock, others>>

\* the clock moves between calls; two calls may see the same Date.now()
Tick ==
    /\ clock < MaxClock
    /\ clock' = clock + 1
    /\ UNCHANGED <<file, calls, resp, others>>

RequestJourney ==
    /\ calls < MaxCalls
    /\ \E uid \in UserInputs :
        Handled(JourneyRequest(file, uid, clock),
                [NoCall EXCEPT !.op = "request", !.userId = uid])

AssignAdmin ==
    /\ calls < MaxCalls
    /\ \E jid \in JourneyInputs, cid \in CarInputs, did \in DriverInputs :
        Handled(AdminAssign(file, jid, cid, did),
                [NoCall EXCEPT !.op = "admin-assign", !.journeyId = jid,
                               !.carId = cid, !.driverId = did])

AssignLegacy ==
    /\ calls < MaxCalls
    /\ \E jid \in JourneyInputs, cid \in CarInputs, did \in DriverInputs :
        Handled(LegacyAssign(file, jid, cid, did),
                [NoCall EXCEPT !.op = "legacy-assign", !.journeyId = jid,
                               !.carId = cid, !.driverId = did])

Cancel ==
    /\ calls < MaxCalls
    /\ \E jid \in JourneyInputs :
        Handled(CancelJourney(file, jid, clock),
                [NoCall EXCEPT !.op = "cancel", !.journeyId = jid])

RequestDropoff ==
    /\ calls < MaxCalls
    /\ \E jid \in JourneyInputs :
        Handled(Dropoff(file, jid, clock),
                [NoCall EXCEPT !.op = "dropoff", !.journeyId = jid])

RequestRouteChange ==
    /\ calls < MaxCalls
    /\ \E jid \in JourneyInputs, wp \in Waypoints :
        Handled(RouteChange(file, jid, wp, clock),
                [NoCall EXCEPT !.op = "route-change", !.journeyId = jid,
                               !.waypoint = wp])

UpdateJourneyStatus ==
    /\ calls < MaxCalls
    /\ \E did \in DriverInputs, jid \in JourneyInputs, st \in JourneyStatus \cup {""} :
        Handled(DriverJourneyStatus(file, did, jid, st, clock),
                [NoCall EXCEPT !.op = "driver-journey-status", !.journeyId = jid,
                               !.driverId = did, !.status = st])

UpdateJourneyStatusAction ==
    /\ calls < MaxCalls
    /\ \E did \in DriverInputs, jid \in JourneyInputs, st \in JourneyStatus :
        Handled(DriversAction(file, did, jid, st, clock),
                [NoCall EXCEPT !.op = "drivers-action", !.journeyId = jid,
                               !.driverId = did, !.status = st])

UpdateCarStatus ==
    /\ calls < MaxCalls
    /\ \E cid \in CarInputs, st \in CarStatus \cup {""} :
        Handled(AdminCarStatus(file, cid, st),
                [NoCall EXCEPT !.op = "admin-car-status", !.carId = cid,
                               !.status = st])

UpdateCarStatusLegacy ==
    /\ calls < MaxCalls
    /\ \E cid \in CarInputs, st \in CarStatus \cup {""} :
        Handled(LegacyCarStatus(file, cid, st),
                [NoCall EXCEPT !.op = "legacy-car-status", !.carId = cid,
                               !.status = st])

UpdateDriverStatus ==
    /\ calls < MaxCalls
    /\ \E did \in DriverInputs, onLeave \in BOOLEAN :
        Handled(AdminDriverStatus(file, did, onLeave),
                [NoCall EXCEPT !.op = "admin-driver-status", !.driverId = did,
                               !.onLeave = onLeave])

DataActions == {"", "update-system-stats", "update-data", "reset-data", "other"}

\* the payload of POST /api/data is the data as first loaded
UpdateData ==
    /\ calls < MaxCalls
    /\ \E action \in DataActions, hasData \in BOOLEAN :
        Handled(DataPost(file, action, hasData, InitData),
                [NoCall EXCEPT !.op = "data", !.action = action])

Next ==
    \/ Tick
    \/ RequestJourney
    \/ AssignAdmin
    \/ AssignLegacy
    \/ Cancel
    \/ RequestDropoff
    \/ RequestRouteChange
    \/ UpdateJourneyStatus
    \/ UpdateJourneyStatusAction
    \/ UpdateCarStatus
    \/ UpdateCarStatusLegacy
    \/ UpdateDriverStatus
    \/ UpdateData

Spec == Init /\ [][Next]_vars

\* ------------------------------------------------- the admin's status calls
UpdateUserStatus ==
    /\ calls < MaxCalls
    /\ \E uid \in UserInputs, isActive \in BOOLEAN :
        Handled(AdminUserStatus(file, uid, isActive),
                [NoCall EXCEPT !.op = "admin-user-status", !.userId = uid,
                               !.isActive = isActive])

NextAdmin ==
    \/ Tick
    \/ RequestJourney
    \/ AssignAdmin
    \/ UpdateCarStatus
    \/ UpdateDriverStatus
    \/ UpdateUserStatus

SpecAdmin == Init /\ [][NextAdmin]_vars

\* ------------------------------------------- a server whose writes may fail
\* fs.writeFileSync opens the file with flag 'w', which empties it, and then
\* writes: a write that fails was either refused when the file was opened (the
\* file is as it was) or failed after that (the file is empty or cut short).
WriteOutcomes == {"written", "refused", "torn"}

TornFile == [torn |-> TRUE]

\* what readData returns when the file cannot be read or parsed
EmptyData ==
    [journeys |-> <<>>,
     users |-> [u \in {} |-> TRUE],
     cars |-> [c \in {} |-> "available"],
     drivers |-> [x \in {} |-> FALSE],
     stats |-> [pendingRequests |-> 0, activeJourneys |-> 0,
                availableCars |-> 0, driversOnLeave |-> 0]]

ReadData(f) == IF f = TornFile THEN EmptyData ELSE f

\* writeData: TRUE when written, else FALSE, with what is in the file then
WriteData(f, data, outcome) ==
    [ok |-> outcome = "written",
     file |-> IF outcome = "written" THEN data
              ELSE IF outcome = "refused" THEN f
              ELSE TornFile]

\* a handler that passed its checks writes; when writeData returns false it
\* throws and its catch block answers 500
HandledIO(r, op, outcome) ==
    LET w == WriteData(file, r.data, outcome)
        code == IF r.code = 200 /\ ~w.ok THEN 500 ELSE r.code
    IN /\ file' = IF r.code = 200 THEN w.file ELSE file
       /\ io' = [op |-> op, code |-> code, read |-> ReadData(file)]
       /\ calls' = IF code = 200 THEN calls + 1 ELSE calls
       /\ UNCHANGED <<clock, resp, procs, accounts, reply, client>>

InitIO ==
    /\ file = InitData
    /\ clock = 1
    /\ calls = 0
    /\ resp = NoCall
    /\ io = NoIO
    /\ procs = Unused
    /\ accounts = Unused
    /\ reply = Unused
    /\ client = Unused

RequestJourneyIO ==
    /\ calls < MaxCalls
    /\ \E uid \in UserInputs, outcome \in WriteOutcomes :
        HandledIO(JourneyRequest(ReadData(file), uid, clock), "request", outcome)

AssignAdminIO ==
    /\ calls < MaxCalls
    /\ \E jid \in JourneyInputs, cid \in CarInputs, did \in DriverInputs,
          outcome \in WriteOutcomes :
        HandledIO(AdminAssign(ReadData(file), jid, cid, did), "admin-assign",
                  outcome)

CancelIO ==
    /\ calls < MaxCalls
    /\ \E jid \in JourneyInputs, outcome \in WriteOutcomes :
        HandledIO(CancelJourney(ReadData(file), jid, clock), "cancel", outcome)

RequestDropoffIO ==
    /\ calls < MaxCalls
    /\ \E jid \in JourneyInputs, outcome \in WriteOutcomes :
        HandledIO(Dropoff(ReadData(file), jid, clock), "dropoff", outcome)

RequestRouteChangeIO ==
    /\ calls < MaxCalls
    /\ \E jid \in JourneyInputs, wp \in Waypoints, outcome \in WriteOutcomes :
        HandledIO(RouteChange(ReadData(file), jid, wp, clock), "route-change",
                  outcome)

NextIO ==
    \/ Tick
    \/ RequestJourneyIO
    \/ AssignAdminIO
    \/ CancelIO
    \/ RequestDropoffIO
    \/ RequestRouteChangeIO

SpecIO == InitIO /\ [][NextIO]_vars

\* ----------------------------------------- two servers that share the file
\* A handler never yields between readData and writeData, so the calls of
\* one Node process run one after the other.  Two server processes started
\* on the same directory share demoData.json without a lock: a call of one
\* may read and write between the read and the write of a call of the other.
Servers == {1, 2}

IdleProc ==
    [pc |-> "idle", journeyId |-> NoJourneyId, carId |-> "", driverId |-> "",
     code |-> 0, read |-> InitData, data |-> InitData]

InitRace ==
    /\ file = InitData
    /\ clock = 1
    /\ calls = 0
    /\ resp = NoCall
    /\ io = Unused
    /\ procs = [p \in Servers |-> IdleProc]
    /\ accounts = Unused
    /\ reply = Unused
    /\ client = Unused

\* POST /api/admin/journeys/assign up to its last check: the call reads the
\* file and either answers with an error, which leaves the server as it was,
\* or holds the data it will write
AssignRead(p) ==
    /\ procs[p].pc = "idle"
    /\ \E jid \in JourneyInputs, cid \in CarInputs, did \in DriverInputs :
        LET r == AdminAssign(file, jid, cid, did) IN
        procs' = IF r.code = 200
                 THEN [procs EXCEPT ![p] =
                        [pc |-> "read", journeyId |-> jid, carId |-> cid,
                         driverId |-> did, code |-> 0,
                         read |-> file, data |-> r.data]]
                 ELSE procs
    /\ UNCHANGED <<file, clock, calls, resp, io, accounts, reply, client>>

\* writeData and the answer: the whole data the call holds replaces the file
AssignWrite(p) ==
    /\ procs[p].pc = "read"
    /\ file' = procs[p].data
    /\ procs' = [procs EXCEPT ![p].pc = "done", ![p].code = 200]
    /\ UNCHANGED <<clock, calls, resp, io, accounts, reply, client>>

NextRace ==
    \/ Tick
    \/ RequestJourney
    \/ \E p \in Servers : AssignRead(p)
    \/ \E p \in Servers : AssignWrite(p)

SpecRace == InitRace /\ [][NextRace]_vars

\* ------------------------------------ POST /api/auth/login, GET /api/data
\* A stored user or driver is a record with a password; what is sent to a
\* client is the record without that field.
Emails == {"a@x", "b@x"}

Passwords == {"p", "q"}

\* the users array may hold a record for a driver, under the driver's id
UserRecords ==
    [id : {"u1"}, email : Emails, password : Passwords, role : {"user"}]
    \cup [id : {"d1"}, email : Emails, password : Passwords,
          role : {"driver"}]

DriverRecords ==
    [id : {"d1"}, email : Emails, password : Passwords, role : {"driver"}]

\* how many users and how many drivers are stored
MaxUsers == 2

MaxDrivers == 1

SeqsUpTo(S, n) == UNION {[1..k -> S] : k \in 0..n}

\* the sanitiser, were it to send the record as stored
SanitizeUserKept(u) == u

\* const { password, ...userWithoutPassword } = user
SanitizeUser(u) == [f \in DOMAIN u \ {"password"} |-> u[f]]

\* { ...a, ...b }
Spread(a, b) ==
    [f \in DOMAIN a \cup DOMAIN b |-> IF f \in DOMAIN b THEN b[f] ELSE a[f]]

\* Array.prototype.find: the index of the first element among those of
\* `wanted` (the elements that satisfy the predicate), or 0
FindFirst(seq, wanted) ==
    IF \E i \in 1..Len(seq) : seq[i] \in wanted
    THEN CHOOSE i \in 1..Len(seq) :
            seq[i] \in wanted /\ \A k \in 1..(i - 1) : seq[k] \notin wanted
    ELSE 0

Elements(seq) == {seq[i] : i \in 1..Len(seq)}

\* the users, then the drivers whose id no user has
GetAllUsers(acc) ==
    acc.users \o
    SelectSeq(acc.drivers,
              LAMBDA d : ~\E i \in 1..Len(acc.users) : acc.users[i].id = d.id)

NoUser == [id |-> ""]

AuthReply(op, code, email, password, user, users, drivers) ==
    [op |-> op, code |-> code, email |-> email, password |-> password,
     user |-> user, users |-> users, drivers |-> drivers]

Login(acc, readable, email, password) ==
    IF email = "" \/ password = ""
    THEN AuthReply("login", 400, email, password, NoUser, <<>>, <<>>)
    ELSE IF ~readable
    THEN AuthReply("login", 500, email, password, NoUser, <<>>, <<>>)
    ELSE
        LET allUsers == GetAllUsers(acc)
            ui == FindFirst(allUsers,
                            {u \in Elements(allUsers) :
                                u.email = email /\ u.password = password})
        IN IF ui = 0
           THEN AuthReply("login", 401, email, password, NoUser, <<>>, <<>>)
           ELSE
               LET user == allUsers[ui]
                   own == IF user.role = "driver" THEN acc.drivers
                          ELSE acc.users
                   oi == FindFirst(own, {x \in Elements(own) : x.id = user.id})
                   userWithAdditionalData ==
                       IF oi = 0 THEN user ELSE Spread(user, own[oi])
               IN AuthReply("login", 200, email, password,
                            SanitizeUser(userWithAdditionalData), <<>>, <<>>)

GetData(acc, readable) ==
    IF ~readable
    THEN AuthReply("data", 500, "", "", NoUser, <<>>, <<>>)
    ELSE AuthReply("data", 200, "", "", NoUser,
                   [i \in 1..Len(acc.users) |-> SanitizeUser(acc.users[i])],
                   [i \in 1..Len(acc.drivers) |-> SanitizeUser(acc.drivers[i])])

InitAuth ==
    /\ file = InitData
    /\ clock = 1
    /\ calls = 0
    /\ resp = NoCall
    /\ io = Unused
    /\ procs = Unused
    /\ accounts \in [users : SeqsUpTo(UserRecords, MaxUsers),
                      drivers : SeqsUpTo(DriverRecords, MaxDrivers)]
    /\ reply = NoReply
    /\ client = Unused

PostLogin ==
    /\ \E readable \in BOOLEAN, email \in Emails \cup {""},
          password \in Passwords \cup {""} :
        reply' = Login(accounts, readable, email, password)
    /\ UNCHANGED <<file, clock, calls, resp, io, procs, accounts, client>>

GetAllData ==
    /\ \E readable \in BOOLEAN : reply' = GetData(accounts, readable)
    /\ UNCHANGED <<file, clock, calls, resp, io, procs, accounts, client>>

NextAuth ==
    \/ PostLogin
    \/ GetAllData

SpecAuth == InitAuth /\ [][NextAuth]_vars

\* ------------------------------------------------------- the user dashboard
\* The dashboard of one user: its React state (selectedDestination,
\* bookingState, userJourneys) and the booking it keeps in local storage, of
\* which only the timestamp is read back.  The clock counts half periods of
\* the cooldown timer; the cooldown lasts COOLDOWN_PERIOD of them.
ClientUser == "u1"

\* the period of the cooldown timer (setInterval(..., 1000))
TimerPeriod == 2

COOLDOWN_PERIOD == 4

MaxTime == 7

\* journeys.sort by startTime, newest first; Array.prototype.sort is stable
RECURSIVE NewestFirst(_)
NewestFirst(js) ==
    IF js = <<>> THEN <<>>
    ELSE LET rest == NewestFirst(Tail(js))
             j == Head(js)
             k == Cardinality({i \in 1..Len(rest) : rest[i].id > j.id})
         IN SubSeq(rest, 1, k) \o <<j>> \o SubSeq(rest, k + 1, Len(rest))

\* loadUserData: the user's journeys as GET /api/data returns them
LoadUserData(d, uid) ==
    NewestFirst(SelectSeq(d.journeys, LAMBDA j : j.userId = uid))

\* checkBookingStatus on a freshly mounted page
CheckBookingStatus(c, now) ==
    IF c.booking = NoTime THEN c
    ELSE IF now - c.booking < COOLDOWN_PERIOD
    THEN [c EXCEPT !.bookingState =
            [isBookingAllowed |-> FALSE,
             cooldownRemaining |-> COOLDOWN_PERIOD - (now - c.booking),
             hasActiveRequest |-> TRUE]]
    ELSE [c EXCEPT !.booking = NoTime]

ValidateBookingRequest(c) ==
    IF ~c.selectedDestination THEN FALSE
    ELSE IF ~c.bookingState.isBookingAllowed THEN FALSE
    ELSE IF c.bookingState.hasActiveRequest THEN FALSE
    ELSE TRUE

\* one period of the cooldown timer
\* the timer, were it to release the booking only at exactly zero
CooldownTimerExact(b) ==
    IF b.cooldownRemaining <= 0 THEN b
    ELSE IF b.cooldownRemaining - TimerPeriod = 0
    THEN [b EXCEPT !.isBookingAllowed = TRUE, !.cooldownRemaining = 0,
                   !.hasActiveRequest = FALSE]
    ELSE [b EXCEPT !.cooldownRemaining = @ - TimerPeriod]

CooldownTimer(b) ==
    IF b.cooldownRemaining <= 0 THEN b
    ELSE IF b.cooldownRemaining - TimerPeriod <= 0
    THEN [b EXCEPT !.isBookingAllowed = TRUE, !.cooldownRemaining = 0,
                   !.hasActiveRequest = FALSE]
    ELSE [b EXCEPT !.cooldownRemaining = @ - TimerPeriod]

InitClient ==
    /\ file = InitData
    /\ clock = 1
    /\ calls = 0
    /\ resp = NoCall
    /\ io = Unused
    /\ procs = Unused
    /\ accounts = Unused
    /\ reply = Unused
    /\ client = [NoClient EXCEPT !.open = TRUE]

\* the page is loaded again: the React state starts afresh, local storage stays
Reloaded(now) ==
    CheckBookingStatus(
        [NoClient EXCEPT !.open = TRUE,
                         !.booking = client.booking,
                         !.userJourneys = LoadUserData(file, ClientUser)],
        now)

Reload ==
    /\ client' = Reloaded(clock)
    /\ UNCHANGED <<file, clock, calls, resp, io, procs, accounts, reply>>

SelectDestination ==
    /\ client.open
    /\ \E chosen \in BOOLEAN : client' = [client EXCEPT !.selectedDestination = chosen]
    /\ UNCHANGED <<file, clock, calls, resp, io, procs, accounts, reply>>

\* requestTransport: nothing is sent when the validation fails; a response
\* other than 200 only raises an alert
RequestTransport ==
    /\ client.open
    /\ calls < MaxCalls
    /\ LET r == JourneyRequest(file, ClientUser, clock) IN
       IF ValidateBookingRequest(client) /\ r.code = 200
       THEN /\ file' = r.data
            /\ calls' = calls + 1
            /\ resp' = [NoCall EXCEPT !.op = "request", !.userId = ClientUser]
            /\ client' =
                 [client EXCEPT
                    !.booking = clock,
                    !.userJourneys = <<NewJourney(ClientUser, clock)>> \o @,
                    !.bookingState =
                        [isBookingAllowed |-> FALSE,
                         cooldownRemaining |-> COOLDOWN_PERIOD,
                         hasActiveRequest |-> TRUE],
                    !.selectedDestination = FALSE]
       ELSE UNCHANGED <<file, calls, resp, client>>
    /\ UNCHANGED <<clock, io, procs, accounts, reply>>

\* cancelBookingRequest: the first journey the page holds as 'requested'
CancelBookingRequest ==
    /\ client.open
    /\ calls < MaxCalls
    /\ LET ri == FindFirst(client.userJourneys,
                           {j \in Elements(client.userJourneys) :
                               j.status = "requested"})
       IN IF ri = 0
          THEN UNCHANGED <<file, calls, resp, client>>
          ELSE
            LET jid == client.userJourneys[ri].id
                r == CancelJourney(file, jid, clock)
            IN IF r.code = 200
               THEN /\ file' = r.data
                    /\ calls' = calls + 1
                    /\ resp' = [NoCall EXCEPT !.op = "cancel", !.journeyId = jid]
                    /\ client' =
                         [client EXCEPT
                            !.booking = NoTime,
                            !.userJourneys =
                                [i \in 1..Len(@) |->
                                    IF @[i].id = jid
                                    THEN r.data.journeys[
                                            JourneyIndex(r.data.journeys, jid)]
                                    ELSE @[i]],
                            !.bookingState = InitialBookingState]
               ELSE UNCHANGED <<file, calls, resp, client>>
    /\ UNCHANGED <<clock, io, procs, accounts, reply>>

\* a period of the timer passes
TimerTick ==
    /\ clock + TimerPeriod <= MaxTime
    /\ clock' = clock + TimerPeriod
    /\ client' = IF client.open
                 THEN [client EXCEPT !.bookingState = CooldownTimer(@)]
                 ELSE client
    /\ UNCHANGED <<file, calls, resp, io, procs, accounts, reply>>

NextClient ==
    \/ Reload
    \/ SelectDestination
    \/ RequestTransport
    \/ CancelBookingRequest
    \/ TimerTick
    \/ AssignAdmin

SpecClient == InitClient /\ [][NextClient]_vars

\* the dashboard alone, its timer firing as long as it is set.  A request is
\* made early enough for its cooldown to end before the last value of the
\* clock.
RequestTransportInTime ==
    /\ clock + COOLDOWN_PERIOD + TimerPeriod - 1 <= MaxTime
    /\ RequestTransport

\* the page is loaded again half a period later; the timer's periods then
\* count from this load
ReloadLater ==
    /\ clock + 1 <= MaxTime
    /\ clock' = clock + 1
    /\ client' = Reloaded(clock + 1)
    /\ UNCHANGED <<file, calls, resp, io, procs, accounts, reply>>

NextCooldown ==
    \/ Reload
    \/ ReloadLater
    \/ SelectDestination
    \/ RequestTransportInTime
    \/ CancelBookingRequest
    \/ TimerTick

SpecCooldown == InitClient /\ [][NextCooldown]_vars /\ WF_vars(TimerTick)

\* ------------------------------------------- the stored users and drivers
\* the calls that create, change and list the users and the drivers of the
\* data file; `accounts` holds the two arrays, `reply` the last response

Licenses == {"L1", "L2"}

\* how many users and how many drivers a history stores
MaxStored == 2

\* ids are `user-${Date.now()}` and `driver-${Date.now()}`; 0 is a seeded id
AccountTimes == 0..MaxClock

\* the decimal numeral of a time
Numeral(t) ==
    CASE t = 0 -> "0" [] t = 1 -> "1" [] t = 2 -> "2" [] t = 3 -> "3"
      [] OTHER -> "4"

UserIdAt(t) == "user-" \o Numeral(t)

DriverIdAt(t) == "driver-" \o Numeral(t)

AccountUserIds == {UserIdAt(t) : t \in AccountTimes}

AccountDriverIds == {DriverIdAt(t) : t \in AccountTimes}

NoId == ""

\* the fallback of a readData that catches its error
EmptyAccounts == [users |-> <<>>, drivers |-> <<>>]

ReadOrEmpty(acc, readable) == IF readable THEN acc ELSE EmptyAccounts

SeedAccounts ==
    [users |-> <<[id |-> UserIdAt(0), email |-> "a@x", password |-> "p",
                  role |-> "user", isActive |-> TRUE]>>,
     drivers |-> <<[id |-> DriverIdAt(0), email |-> "a@x",
                    password |-> "p", role |-> "driver",
                    licenseNo |-> "L1"]>>]

\* the response (status code and the records of its body) and the arrays
\* the call leaves in the file
Outcome(code, body, acc) == [code |-> code, body |-> body, acc |-> acc]

NoBody == <<>>

\* POST /api/admin/drivers
CreateDriver(acc, email, password, licenseNo, readable, writable, now) ==
    IF email = "" \/ password = "" \/ licenseNo = ""
    THEN Outcome(400, NoBody, acc)
    ELSE
        LET data == ReadOrEmpty(acc, readable)
            newDriver == [id |-> DriverIdAt(now), email |-> email,
                          password |-> password, role |-> "driver",
                          licenseNo |-> licenseNo]
        IN IF \E i \in 1..Len(data.drivers) : data.drivers[i].email = email
           THEN Outcome(409, NoBody, acc)
           ELSE IF \E i \in 1..Len(data.drivers) :
                       data.drivers[i].licenseNo = licenseNo
           THEN Outcome(409, NoBody, acc)
           ELSE IF ~writable
           THEN Outcome(500, NoBody, acc)
           ELSE Outcome(200, <<SanitizeUser(newDriver)>>,
                        [data EXCEPT !.drivers = Append(@, newDriver)])

\* PUT /api/admin/drivers
UpdateDriver(acc, id, email, licenseNo, readable, writable) ==
    IF id = NoId \/ email = "" \/ licenseNo = ""
    THEN Outcome(400, NoBody, acc)
    ELSE
        LET data == ReadOrEmpty(acc, readable)
            driverIndex == FindFirst(data.drivers,
                                     {d \in Elements(data.drivers) : d.id = id})
        IN IF driverIndex = 0
           THEN Outcome(404, NoBody, acc)
           ELSE
               LET existingDriver == data.drivers[driverIndex]
                   updatedDriver ==
                       Spread(existingDriver,
                              [email |-> email, licenseNo |-> licenseNo])
               IN IF /\ email # existingDriver.email
                     /\ \E i \in 1..Len(data.drivers) :
                           /\ data.drivers[i].email = email
                           /\ data.drivers[i].id # id
                  THEN Outcome(409, NoBody, acc)
                  ELSE IF /\ licenseNo # existingDriver.licenseNo
                          /\ \E i \in 1..Len(data.drivers) :
                                /\ data.drivers[i].licenseNo = licenseNo
                                /\ data.drivers[i].id # id
                  THEN Outcome(409, NoBody, acc)
                  ELSE IF ~writable
                  THEN Outcome(500, NoBody, acc)
                  ELSE Outcome(200, <<SanitizeUser(updatedDriver)>>,
                               [data EXCEPT
                                   !.drivers[driverIndex] = updatedDriver])

\* the profileData of a profile update: some of a driver's fields
ProfileInputs ==
    [email : Emails] \cup [licenseNo : Licenses]
    \cup [email : Emails, licenseNo : Licenses]

NoProfile == <<>>

\* POST /api/drivers/profile; its readData and writeData throw
DriverProfile(acc, driverId, profileData, readable, writable) ==
    IF driverId = NoId \/ profileData = NoProfile
    THEN Outcome(400, NoBody, acc)
    ELSE IF ~readable
    THEN Outcome(500, NoBody, acc)
    ELSE
        LET driverIndex ==
                FindFirst(acc.drivers,
                          {d \in Elements(acc.drivers) : d.id = driverId})
        IN IF driverIndex = 0
           THEN Outcome(404, NoBody, acc)
           ELSE IF ~writable
           THEN Outcome(500, NoBody, acc)
           ELSE Outcome(200, <<[success |-> TRUE]>>,
                        [acc EXCEPT !.drivers[driverIndex] =
                                        Spread(@, profileData)])

\* GET /api/drivers?driverId=; its readData throws
GetDriver(acc, driverId, readable) ==
    IF driverId = NoId
    THEN Outcome(400, NoBody, acc)
    ELSE IF ~readable
    THEN Outcome(500, NoBody, acc)
    ELSE
        LET driverIndex ==
                FindFirst(acc.drivers,
                          {d \in Elements(acc.drivers) : d.id = driverId})
        IN IF driverIndex = 0
           THEN Outcome(404, NoBody, acc)
           ELSE Outcome(200, <<acc.drivers[driverIndex]>>, acc)

\* POST /api/admin/users
CreateUser(acc, email, password, readable, writable, now) ==
    IF email = "" \/ password = ""
    THEN Outcome(400, NoBody, acc)
    ELSE
        LET data == ReadOrEmpty(acc, readable)
            newUser == [id |-> UserIdAt(now), email |-> email,
                        password |-> password, role |-> "user",
                        isActive |-> TRUE]
        IN IF \E i \in 1..Len(data.users) : data.users[i].email = email
           THEN Outcome(409, NoBody, acc)
           ELSE IF ~writable
           THEN Outcome(500, NoBody, acc)
           ELSE Outcome(200, <<SanitizeUser(newUser)>>,
                        [data EXCEPT !.users = Append(@, newUser)])

\* GET /api/users
GetUsers(acc, readable) ==
    Outcome(200, ReadOrEmpty(acc, readable).users, acc)

\* POST /api/users: the new user has no password
PostUser(acc, email, readable, writable, now) ==
    IF email = ""
    THEN Outcome(400, NoBody, acc)
    ELSE
        LET data == ReadOrEmpty(acc, readable)
            newUser == [id |-> UserIdAt(now), email |-> email,
                        role |-> "user", isActive |-> TRUE]
        IN IF \E i \in 1..Len(data.users) : data.users[i].email = email
           THEN Outcome(400, NoBody, acc)
           ELSE IF ~writable
           THEN Outcome(500, NoBody, acc)
           ELSE Outcome(200, <<newUser>>,
                        [data EXCEPT !.users = Append(@, newUser)])

\* PUT /api/users
PutUser(acc, id, email, readable, writable) ==
    IF id = NoId \/ email = ""
    THEN Outcome(400, NoBody, acc)
    ELSE
        LET data == ReadOrEmpty(acc, readable)
            userIndex == FindFirst(data.users,
                                   {u \in Elements(data.users) : u.id = id})
        IN IF userIndex = 0
           THEN Outcome(404, NoBody, acc)
           ELSE IF \E i \in 1..Len(data.users) :
                       data.users[i].email = email /\ data.users[i].id # id
           THEN Outcome(400, NoBody, acc)
           ELSE IF ~writable
           THEN Outcome(500, NoBody, acc)
           ELSE
               LET updated == Spread(data.users[userIndex],
                                     [email |-> email])
               IN Outcome(200, <<updated>>,
                          [data EXCEPT !.users[userIndex] = updated])

\* a request field that holds a boolean is <<b>>; one that does not, <<>>
NoValue == <<>>

\* PUT /api/users/status
PutUserStatus(acc, userId, isActive, readable, writable) ==
    IF userId = NoId \/ isActive = NoValue
    THEN Outcome(400, NoBody, acc)
    ELSE
        LET data == ReadOrEmpty(acc, readable)
            userIndex == FindFirst(data.users,
                                   {u \in Elements(data.users) : u.id = userId})
        IN IF userIndex = 0
           THEN Outcome(404, NoBody, acc)
           ELSE IF ~writable
           THEN Outcome(500, NoBody, acc)
           ELSE
               LET updated == Spread(data.users[userIndex],
                                     [isActive |-> isActive[1]])
               IN Outcome(200, <<updated>>,
                          [data EXCEPT !.users[userIndex] = updated])

\* findUser: by id or by email, the users before the drivers; NoUser if none
FindUser(data, identifier) ==
    LET ui == FindFirst(data.users,
                        {u \in Elements(data.users) :
                            u.id = identifier \/ u.email = identifier})
        di == FindFirst(data.drivers,
                        {d \in Elements(data.drivers) :
                            d.id = identifier \/ d.email = identifier})
    IN IF ui # 0 THEN data.users[ui]
       ELSE IF di # 0 THEN data.drivers[di]
       ELSE NoUser

\* updateUserInData: the first user, else the first driver, that matches
UpdateUserInData(data, identifier, updates) ==
    LET ui == FindFirst(data.users,
                        {u \in Elements(data.users) :
                            u.id = identifier \/ u.email = identifier})
        di == FindFirst(data.drivers,
                        {d \in Elements(data.drivers) :
                            d.id = identifier \/ d.email = identifier})
    IN IF ui # 0 THEN [data EXCEPT !.users[ui] = Spread(@, updates)]
       ELSE IF di # 0 THEN [data EXCEPT !.drivers[di] = Spread(@, updates)]
       ELSE data

\* PUT /api/user/profile
PutProfile(acc, id, email, readable, writable) ==
    IF email = ""
    THEN Outcome(400, NoBody, acc)
    ELSE
        LET data == ReadOrEmpty(acc, readable)
            identifier == IF id # NoId THEN id ELSE email
            existingUser == FindUser(data, identifier)
        IN IF existingUser = NoUser
           THEN Outcome(404, NoBody, acc)
           ELSE IF /\ email # existingUser.email
                   /\ FindUser(data, email) # NoUser
                   /\ FindUser(data, email).id # existingUser.id
           THEN Outcome(409, NoBody, acc)
           ELSE IF ~writable
           THEN Outcome(500, NoBody, acc)
           ELSE
               LET written == UpdateUserInData(data, identifier,
                                               [email |-> email])
               IN Outcome(200, <<SanitizeUser(FindUser(written, email))>>,
                          written)

NoAccountReply ==
    [op |-> "none", code |-> 0, body |-> NoBody, readFailed |-> FALSE]

InitAccounts ==
    /\ file = Unused
    /\ clock = 1
    /\ calls = 0
    /\ resp = Unused
    /\ io = Unused
    /\ procs = Unused
    /\ accounts = SeedAccounts
    /\ reply = NoAccountReply
    /\ client = Unused

\* one call: its response, and what it leaves in the file
Served(op, o, readable) ==
    /\ Len(o.acc.users) <= MaxStored
    /\ Len(o.acc.drivers) <= MaxStored
    /\ accounts' = o.acc
    /\ reply' = [op |-> op, code |-> o.code, body |-> o.body,
                 readFailed |-> ~readable]
    /\ UNCHANGED <<file, clock, calls, resp, io, procs, client>>

PostAdminDriver ==
    \E email \in Emails \cup {""}, licenseNo \in Licenses,
       readable, writable \in BOOLEAN :
        Served("create-driver",
               CreateDriver(accounts, email, "p", licenseNo, readable,
                            writable, clock),
               readable)

PutAdminDriver ==
    \E id \in AccountDriverIds, email \in Emails, licenseNo \in Licenses,
       readable, writable \in BOOLEAN :
        Served("update-driver",
               UpdateDriver(accounts, id, email, licenseNo, readable,
                            writable),
               readable)

PostDriverProfile ==
    \E id \in AccountDriverIds, profileData \in ProfileInputs \cup {NoProfile},
       readable, writable \in BOOLEAN :
        Served("driver-profile",
               DriverProfile(accounts, id, profileData, readable, writable),
               readable)

GetDriverData ==
    \E id \in AccountDriverIds \cup {NoId}, readable \in BOOLEAN :
        Served("get-driver", GetDriver(accounts, id, readable), readable)

PostAdminUser ==
    \E email \in Emails \cup {""}, readable, writable \in BOOLEAN :
        Served("create-user",
               CreateUser(accounts, email, "p", readable, writable, clock),
               readable)

GetAllUsersList ==
    \E readable \in BOOLEAN :
        Served("get-users", GetUsers(accounts, readable), readable)

PostUsers ==
    \E email \in Emails \cup {""}, readable, writable \in BOOLEAN :
        Served("post-user",
               PostUser(accounts, email, readable, writable, clock),
               readable)

PutUsers ==
    \E id \in AccountUserIds, email \in Emails,
       readable, writable \in BOOLEAN :
        Served("put-user", PutUser(accounts, id, email, readable, writable),
               readable)

PutUsersStatus ==
    \E id \in AccountUserIds, isActive \in {<<TRUE>>, <<FALSE>>, NoValue},
       readable, writable \in BOOLEAN :
        Served("put-user-status",
               PutUserStatus(accounts, id, isActive, readable, writable),
               readable)

PutUserProfile ==
    \E id \in AccountUserIds \cup AccountDriverIds \cup {NoId},
       email \in Emails, readable, writable \in BOOLEAN :
        Served("put-profile",
               PutProfile(accounts, id, email, readable, writable),
               readable)

\* the calls about drivers
NextDrivers ==
    \/ PostAdminDriver
    \/ PutAdminDriver
    \/ PostDriverProfile
    \/ GetDriverData
    \/ Tick

SpecDrivers == InitAccounts /\ [][NextDrivers]_vars

\* the calls about users
NextUsers ==
    \/ PostAdminUser
    \/ GetAllUsersList
    \/ PostUsers
    \/ PutUsers
    \/ PutUsersStatus
    \/ PutUserProfile
    \/ GetDriverData
    \/ Tick

SpecUsers == InitAccounts /\ [][NextUsers]_vars

\* ------------------------------------------------- the client's session
\* AuthProvider: the auth state of the browser tab, the 'user' item of its
\* localStorage, the logins in flight and the ProtectedRoute that is mounted

\* how many login calls are in flight at once
MaxPending == 2

Roles == {"user", "driver", "admin"}

SessionUsers == [id : {"u1", "d1"}, role : Roles]

\* requiredRole is optional
NoRole == "undefined"

\* user?.role
RoleOf(u) == IF u = NoUser THEN "undefined" ELSE u.role

AuthActions ==
    [type : {"LOGIN_START", "LOGIN_FAILURE", "LOGOUT"}]
    \cup [type : {"LOGIN_SUCCESS"}, payload : SessionUsers]
    \cup [type : {"CHECK_AUTH"}, payload : SessionUsers \cup {NoUser}]

\* the reducer, were LOGOUT to clear the flag only
AuthReducerKeepsUser(state, action) ==
    CASE action.type = "LOGIN_START" -> [state EXCEPT !.isLoading = TRUE]
      [] action.type = "LOGIN_SUCCESS" ->
            [user |-> action.payload, isAuthenticated |-> TRUE,
             isLoading |-> FALSE]
      [] action.type = "LOGIN_FAILURE" ->
            [user |-> NoUser, isAuthenticated |-> FALSE, isLoading |-> FALSE]
      [] action.type = "LOGOUT" ->
            [state EXCEPT !.isAuthenticated = FALSE, !.isLoading = FALSE]
      [] action.type = "CHECK_AUTH" ->
            [user |-> action.payload,
             isAuthenticated |-> action.payload # NoUser,
             isLoading |-> FALSE]
      [] OTHER -> state

AuthReducer(state, action) ==
    CASE action.type = "LOGIN_START" -> [state EXCEPT !.isLoading = TRUE]
      [] action.type = "LOGIN_SUCCESS" ->
            [user |-> action.payload, isAuthenticated |-> TRUE,
             isLoading |-> FALSE]
      [] action.type = "LOGIN_FAILURE" ->
            [user |-> NoUser, isAuthenticated |-> FALSE, isLoading |-> FALSE]
      [] action.type = "LOGOUT" ->
            [user |-> NoUser, isAuthenticated |-> FALSE, isLoading |-> FALSE]
      [] action.type = "CHECK_AUTH" ->
            [user |-> action.payload,
             isAuthenticated |-> action.payload # NoUser,
             isLoading |-> FALSE]
      [] OTHER -> state

InitialAuthState ==
    [user |-> NoUser, isAuthenticated |-> FALSE, isLoading |-> TRUE]

\* the 'user' item of localStorage: absent, the text of a user, or a text
\* that JSON.parse rejects
NoItem == <<>>

Garbage == <<"text">>

Stringify(u) == <<"json", u>>

Parses(item) == Len(item) = 2 /\ item[1] = "json"

Parse(item) == item[2]

\* what ProtectedRoute renders
Render(auth, requiredRole) ==
    IF auth.isLoading THEN "loading"
    ELSE IF ~auth.isAuthenticated THEN "nothing"
    ELSE IF requiredRole # NoRole /\ RoleOf(auth.user) # requiredRole
    THEN "denied"
    ELSE "children"

InitSession ==
    /\ file = Unused
    /\ clock = 0
    /\ calls = 0
    /\ resp = Unused
    /\ io = Unused
    /\ procs = Unused
    /\ accounts = Unused
    /\ reply = Unused
    /\ client \in [auth : {InitialAuthState},
                    storage : {NoItem, Garbage}
                              \cup {Stringify(u) : u \in SessionUsers},
                    pending : {0},
                    checked : {FALSE},
                    requiredRole : Roles \cup {NoRole}]

Dispatch(action) ==
    [client EXCEPT !.auth = AuthReducer(@, action)]

\* the effect that runs once when the provider mounts
CheckAuth ==
    /\ ~client.checked
    /\ client' =
         IF client.storage = NoItem
         THEN [Dispatch([type |-> "CHECK_AUTH", payload |-> NoUser])
                   EXCEPT !.checked = TRUE]
         ELSE IF Parses(client.storage)
         THEN [Dispatch([type |-> "CHECK_AUTH",
                         payload |-> Parse(client.storage)])
                   EXCEPT !.checked = TRUE]
         ELSE [Dispatch([type |-> "CHECK_AUTH", payload |-> NoUser])
                   EXCEPT !.checked = TRUE, !.storage = NoItem]
    /\ UNCHANGED <<file, clock, calls, resp, io, procs, accounts, reply>>

\* login(): the request is sent
LoginStart ==
    /\ client.pending < MaxPending
    /\ client' = [Dispatch([type |-> "LOGIN_START"])
                     EXCEPT !.pending = @ + 1]
    /\ UNCHANGED <<file, clock, calls, resp, io, procs, accounts, reply>>

\* login(): the response is ok
LoginSuccess ==
    /\ client.pending > 0
    /\ \E user \in SessionUsers :
        client' = [Dispatch([type |-> "LOGIN_SUCCESS", payload |-> user])
                      EXCEPT !.pending = @ - 1, !.storage = Stringify(user)]
    /\ UNCHANGED <<file, clock, calls, resp, io, procs, accounts, reply>>

\* login(): the response is not ok, or fetch throws
LoginFailure ==
    /\ client.pending > 0
    /\ client' = [Dispatch([type |-> "LOGIN_FAILURE"])
                     EXCEPT !.pending = @ - 1]
    /\ UNCHANGED <<file, clock, calls, resp, io, procs, accounts, reply>>

Logout ==
    /\ client' = [Dispatch([type |-> "LOGOUT"]) EXCEPT !.storage = NoItem]
    /\ UNCHANGED <<file, clock, calls, resp, io, procs, accounts, reply>>

\* window.location.href = ...: the page loads again, on any route
LoadPage ==
    /\ \E requiredRole \in Roles \cup {NoRole} :
        client' = [client EXCEPT !.auth = InitialAuthState, !.pending = 0,
                                 !.checked = FALSE,
                                 !.requiredRole = requiredRole]
    /\ UNCHANGED <<file, clock, calls, resp, io, procs, accounts, reply>>

\* router.push: another route is mounted in the same page
Navigate ==
    /\ \E requiredRole \in Roles \cup {NoRole} :
        client' = [client EXCEPT !.requiredRole = requiredRole]
    /\ UNCHANGED <<file, clock, calls, resp, io, procs, accounts, reply>>

NextSession ==
    \/ CheckAuth
    \/ LoginStart
    \/ LoginSuccess
    \/ LoginFailure
    \/ Logout
    \/ LoadPage
    \/ Navigate

SpecSession == InitSession /\ [][NextSession]_vars

\* ------------------------------------------------------------- the claims
Journeys == 1..Len(file.journeys)

AssignOps == {"admin-assign", "legacy-assign"}

StatusOps == {"driver-journey-status", "drivers-action"}

LifecycleOps ==
    AssignOps \cup StatusOps \cup {"request", "cancel", "dropoff", "route-change"}

\* the step is a call answered with 200
Answered == calls' = calls + 1

\* what the two assignment endpoints answer to the same request
Assignments(jid, cid, did) ==
    {AdminAssign(file, jid, cid, did), LegacyAssign(file, jid, cid, did)}

RequestedBy(d, uid) ==
    {i \in 1..Len(d.journeys) :
        d.journeys[i].userId = uid /\ d.journeys[i].status = "requested"}

Rank(st) ==
    CASE st = "requested" -> 0
      [] st = "in-progress" -> 1
      [] OTHER -> 2

Forward(a, b) == a = b \/ Rank(a) < Rank(b)

\* C1: no call moves a journey's status backwards, and no call changes the
\* status of a journey that is completed or cancelled.
C1_StatusOnlyMovesForward ==
    [][\A i \in Journeys :
          i <= Len(file'.journeys)
          => Forward(file.journeys[i].status, file'.journeys[i].status)]_vars

\* C2: an assignment request naming a journey of the file and a car that is
\* not 'available' is answered with 400 by both assignment endpoints, and
\* the data they leave is the data they read.
C2_UnavailableCarRejected ==
    \A jid \in JourneyInputs, cid \in CarIds, did \in DriverInputs \ {""} :
        (JourneyIndex(file.journeys, jid) # 0 /\ file.cars[cid] # "available")
        => \A r \in Assignments(jid, cid, did) : r = Reply(400, file)

\* C3: a request by a user who has a journey in status 'requested' is
\* answered with 409 and leaves the data (journeys and stats) as read, so
\* a count of 1 requested journey of that user stays 1.
C3_SecondRequestConflict ==
    \A uid \in UserIds :
        RequestedBy(file, uid) # {}
        => LET r == JourneyRequest(file, uid, clock) IN
           /\ r = Reply(409, file)
           /\ Len(r.data.journeys) = Len(file.journeys)
           /\ Cardinality(RequestedBy(file, uid)) = 1
                => Cardinality(RequestedBy(r.data, uid)) = 1

\* C3, witness: a user holds a requested journey and asks again; the
\* answer is 409.
C3_Witness ==
    \E uid \in UserIds :
        /\ resp.op = "request" /\ resp.userId = uid
        /\ RequestedBy(file, uid) # {}
        /\ JourneyRequest(file, uid, clock).code = 409

\* C4: every user has at most one journey in status 'requested'.
C4_AtMostOneRequested ==
    \A uid \in UserIds : Cardinality(RequestedBy(file, uid)) <= 1

\* C5: after an assignment answered with 200 the journey it names is
\* 'in-progress' with the given car, and the car with that id is 'in-use':
\* the two are never updated one without the other.
C5_AssignedTogether ==
    resp.op \in AssignOps
    => LET ji == JourneyIndex(file.journeys, resp.journeyId) IN
       /\ ji # 0
       /\ file.journeys[ji].status = "in-progress"
       /\ file.journeys[ji].carId = resp.carId
       /\ file.journeys[ji].driverId = resp.driverId
       /\ resp.carId \in DOMAIN file.cars => file.cars[resp.carId] = "in-use"

\* C5, witness: an assignment of a car of the file was answered with 200.
C5_Witness ==
    /\ resp.op \in AssignOps
    /\ resp.carId \in CarIds
    /\ file.cars[resp.carId] = "in-use"
    /\ file.journeys[JourneyIndex(file.journeys, resp.journeyId)].status
         = "in-progress"

\* C6: systemStats.pendingRequests is the number of journeys in status
\* 'requested'.
C6_PendingRequestsIsCount ==
    file.stats.pendingRequests = CountStatus(file.journeys, "requested")

\* C7: systemStats.activeJourneys is the number of journeys in status
\* 'in-progress'.
C7_ActiveJourneysIsCount ==
    file.stats.activeJourneys = CountStatus(file.journeys, "in-progress")

\* C8: systemStats.availableCars is the number of cars in status
\* 'available'.
C8_AvailableCarsIsCount ==
    file.stats.availableCars = Count(file.cars, {"available"})

\* C9: a call that completes or cancels a journey (dropoff, cancel, a driver
\* status update to 'completed' or 'cancelled') leaves every car's status as
\* it was, and no journey call at all makes a car 'available'.
C9_EndingKeepsCars ==
    [][/\ (/\ Answered
           /\ \/ resp'.op \in {"dropoff", "cancel"}
              \/ resp'.op \in StatusOps /\ resp'.status \in {"completed", "cancelled"})
          => file'.cars = file.cars
       /\ (Answered /\ resp'.op \in LifecycleOps)
          => \A c \in CarIds :
                file'.cars[c] = "available" => file.cars[c] = "available"]_vars

\* C9, witness: a dropoff completed a journey whose car is still 'in-use'.
C9_Witness ==
    /\ resp.op = "dropoff"
    /\ LET ji == JourneyIndex(file.journeys, resp.journeyId) IN
       /\ file.journeys[ji].status = "completed"
       /\ file.journeys[ji].carId \in CarIds
       /\ file.cars[file.journeys[ji].carId] = "in-use"

\* C10: an assignment request naming a journey of the file is answered with
\* 200 only if the journey is 'requested' and the driver is not on leave;
\* otherwise both endpoints answer 400 and leave the data as read.
C10_AssignNeedsRequestedAndDriver ==
    \A jid \in JourneyInputs, cid \in CarIds, did \in DriverIds :
        LET ji == JourneyIndex(file.journeys, jid) IN
        (ji # 0 /\ (file.journeys[ji].status # "requested" \/ file.drivers[did]))
        => \A r \in Assignments(jid, cid, did) : r = Reply(400, file)

\* C11: cancel on a journey that is 'requested' or 'in-progress' makes it
\* 'cancelled' and sets endTime; on a journey that is 'completed' or
\* 'cancelled' it answers 400 and leaves the data (the journey with its
\* endTime, and the stats) as read.
C11_CancelOnlyBeforeEnd ==
    \A jid \in JourneyInputs :
        LET ji == JourneyIndex(file.journeys, jid)
            r == CancelJourney(file, jid, clock)
        IN ji # 0
           => IF file.journeys[ji].status \in {"requested", "in-progress"}
              THEN /\ r.code = 200
                   /\ r.data.journeys[ji].status = "cancelled"
                   /\ r.data.journeys[ji].endTime = clock
                   /\ r.data.journeys[ji].endTime # NoTime
              ELSE r = Reply(400, file)

\* C11, witness: a cancel was answered with 200, the journey is 'cancelled'
\* with an endTime, the clock has moved on and a second cancel gets 400.
C11_Witness ==
    /\ resp.op = "cancel"
    /\ LET ji == JourneyIndex(file.journeys, resp.journeyId) IN
       /\ file.journeys[ji].status = "cancelled"
       /\ file.journeys[ji].endTime # NoTime
       /\ file.journeys[ji].endTime < clock
    /\ CancelJourney(file, resp.journeyId, clock).code = 400

\* C12: a journey becomes 'completed' only from 'in-progress'.
C12_CompletedOnlyFromInProgress ==
    [][\A i \in Journeys :
          (/\ i <= Len(file'.journeys)
           /\ file'.journeys[i].status = "completed"
           /\ file.journeys[i].status # "completed")
          => file.journeys[i].status = "in-progress"]_vars

\* C13: a route change on an 'in-progress' journey appends one waypoint and
\* one 'waypoint_added' record after those the journey had, and changes
\* nothing else of the data; on a journey in another status it answers 400
\* and leaves the data as read.
C13_RouteChangeAppends ==
    \A jid \in JourneyInputs, wp \in Waypoints \ {""} :
        LET ji == JourneyIndex(file.journeys, jid)
            j == file.journeys[ji]
            r == RouteChange(file, jid, wp, clock)
        IN ji # 0
           => IF j.status = "in-progress"
              THEN /\ r.code = 200
                   /\ r.data =
                        [file EXCEPT !.journeys[ji] =
                            [j EXCEPT !.waypoints = j.waypoints \o <<wp>>,
                                      !.routeChanges = j.routeChanges \o
                                          <<[type |-> "waypoint_added",
                                             timestamp |-> clock,
                                             waypoint |-> wp]>>]]
                   /\ r.data.journeys[ji].status = j.status
                   /\ r.data.journeys[ji].carId = j.carId
                   /\ r.data.journeys[ji].driverId = j.driverId
                   /\ r.data.journeys[ji].endTime = j.endTime
              ELSE r = Reply(400, file)

\* C13, witness: a second, different waypoint was added to a journey.
C13_Witness ==
    /\ resp.op = "route-change"
    /\ LET j == file.journeys[JourneyIndex(file.journeys, resp.journeyId)] IN
       /\ j.status = "in-progress"
       /\ Len(j.waypoints) = 2
       /\ j.waypoints[1] # j.waypoints[2]
       /\ j.waypoints[2] = resp.waypoint
       /\ Len(j.routeChanges) = 2

JourneyIds(d) == {d.journeys[i].id : i \in 1..Len(d.journeys)}

\* C15: no journey is ever destroyed: the set of journey ids in the file only
\* grows, whatever call is made.
C15_JourneysOnlyGrow ==
    [][JourneyIds(file) \subseteq JourneyIds(file')]_vars

\* C16: when a journey-lifecycle handler passed its checks and its write
\* failed, the call is answered 500 and what is persisted is what the call
\* read.
C16_FailedWriteKeepsFile ==
    io.code = 500 => ReadData(file) = io.read

\* the calls of the two servers were both answered 200, for two journeys and
\* the same car
BothAssigned(p, q) ==
    /\ p # q
    /\ procs[p].pc = "done" /\ procs[p].code = 200
    /\ procs[q].pc = "done" /\ procs[q].code = 200
    /\ procs[p].carId = procs[q].carId
    /\ procs[p].journeyId # procs[q].journeyId

\* the status of a journey in the data, "absent" when it is not there
StatusOf(d, jid) ==
    LET ji == JourneyIndex(d.journeys, jid) IN
    IF ji = 0 THEN "absent" ELSE d.journeys[ji].status

Stored == {accounts.users[i] : i \in 1..Len(accounts.users)}
          \cup {accounts.drivers[i] : i \in 1..Len(accounts.drivers)}

\* C17: the response of GET /api/data and of a successful login holds no
\* password field of any user or driver, and a login is answered 200 only
\* when a stored user or driver has the given email and the given password.
C17_NoPasswordSent ==
    /\ (reply.op = "data" /\ reply.code = 200)
       => /\ Len(reply.users) = Len(accounts.users)
          /\ Len(reply.drivers) = Len(accounts.drivers)
          /\ \A i \in 1..Len(reply.users) :
                "password" \notin DOMAIN reply.users[i]
          /\ \A i \in 1..Len(reply.drivers) :
                "password" \notin DOMAIN reply.drivers[i]
    /\ (reply.op = "login" /\ reply.code = 200)
       => /\ "password" \notin DOMAIN reply.user
          /\ \E u \in Stored :
                u.email = reply.email /\ u.password = reply.password

\* C17, witness: a login was answered 200 for a user with role 'driver' whose
\* record was completed from the drivers, where the passwords differ.
C17_Witness ==
    /\ reply.op = "login"
    /\ reply.code = 200
    /\ Len(accounts.users) > 0
    /\ Len(accounts.drivers) > 0
    /\ reply.user.id = accounts.drivers[1].id
    /\ \E i \in 1..Len(accounts.users) :
        /\ accounts.users[i].id = reply.user.id
        /\ accounts.users[i].role = "driver"
        /\ accounts.users[i].password = reply.password
        /\ accounts.users[i].password # accounts.drivers[1].password

\* C18: the admin's status calls for a car, a driver and a user that exist
\* are answered 200 whatever the current value is, set the named field of
\* the named entity to the given value, and leave every other car, driver
\* and user and every journey as they were.
C18_StatusOverwritten ==
    /\ \A cid \in DOMAIN file.cars, st \in CarStatus :
        LET r == AdminCarStatus(file, cid, st) IN
        /\ r.code = 200
        /\ r.data.cars = [file.cars EXCEPT ![cid] = st]
        /\ r.data.journeys = file.journeys
        /\ r.data.drivers = file.drivers
        /\ r.data.users = file.users
    /\ \A did \in DOMAIN file.drivers, onLeave \in BOOLEAN :
        LET r == AdminDriverStatus(file, did, onLeave) IN
        /\ r.code = 200
        /\ r.data.drivers = [file.drivers EXCEPT ![did] = onLeave]
        /\ r.data.journeys = file.journeys
        /\ r.data.cars = file.cars
        /\ r.data.users = file.users
    /\ \A uid \in DOMAIN file.users, isActive \in BOOLEAN :
        LET r == AdminUserStatus(file, uid, isActive) IN
        /\ r.code = 200
        /\ r.data.users = [file.users EXCEPT ![uid] = isActive]
        /\ r.data.journeys = file.journeys
        /\ r.data.cars = file.cars
        /\ r.data.drivers = file.drivers

\* C18, witness: a car was set to 'available' while an 'in-progress' journey
\* has it, after a user was deactivated.
C18_Witness ==
    /\ resp.op = "admin-car-status"
    /\ resp.status = "available"
    /\ file.cars[resp.carId] = "available"
    /\ \E i \in Journeys :
        /\ file.journeys[i].carId = resp.carId
        /\ file.journeys[i].status = "in-progress"
    /\ \E uid \in DOMAIN file.users : ~file.users[uid]

\* what the validation answers once a destination is chosen
Refused == ~ValidateBookingRequest([client EXCEPT !.selectedDestination = TRUE])

\* C19: while less than the cooldown has passed since a request of the user
\* was accepted, the dashboard refuses a further request, whatever was done in
\* between.
C19_CooldownBlocks ==
    (/\ client.open
     /\ \E i \in Journeys :
          /\ file.journeys[i].userId = ClientUser
          /\ clock - file.journeys[i].id < COOLDOWN_PERIOD)
    => Refused

\* C20: while the journeys the dashboard holds include one that is
\* 'requested', the dashboard refuses a further request.
C20_RequestedBlocks ==
    (/\ client.open
     /\ \E i \in 1..Len(client.userJourneys) :
          client.userJourneys[i].status = "requested")
    => Refused

InProgress == {i \in Journeys : file.journeys[i].status = "in-progress"}

\* C22: no car is the car of two journeys that are both 'in-progress'.
C22_CarInOneJourney ==
    \A i, k \in InProgress :
        file.journeys[i].carId = file.journeys[k].carId => i = k

\* C23: no driver is the driver of two journeys that are both 'in-progress'.
C23_DriverInOneJourney ==
    \A i, k \in InProgress :
        file.journeys[i].driverId = file.journeys[k].driverId => i = k

\* C24: the journeys of the file have pairwise distinct ids.
C24_DistinctJourneyIds ==
    \A i, k \in Journeys :
        file.journeys[i].id = file.journeys[k].id => i = k

C27_AssignHandlersAgree ==
    \A jid \in JourneyInputs, cid \in CarInputs, did \in DriverInputs :
        LET old == LegacyAssign(file, jid, cid, did)
            new == AdminAssign(file, jid, cid, did)
        IN /\ (old.code = 200) <=> (new.code = 200)
           /\ old.code = 200 => old.data = new.data

StoredDrivers == 1..Len(accounts.drivers)

\* C21: no two stored drivers share an email, and no two share a licenseNo
C21_UniqueDrivers ==
    \A i, k \in StoredDrivers :
        i # k => /\ accounts.drivers[i].email # accounts.drivers[k].email
                 /\ accounts.drivers[i].licenseNo # accounts.drivers[k].licenseNo

\* C25: a call whose read of the data file fails leaves the stored users
\* and drivers as they were
C25_FailedReadKeepsFile ==
    [][reply'.readFailed => accounts' = accounts]_vars

\* C29: no record of a response body has a password field
C29_NoPasswordInResponses ==
    \A i \in 1..Len(reply.body) : "password" \notin DOMAIN reply.body[i]

\* the auth state has a user exactly when it is authenticated
Consistent(auth) == auth.isAuthenticated <=> auth.user # NoUser

\* C30: the auth state is authenticated exactly when it has a user, also
\* after any further action; and ProtectedRoute renders its children only
\* when loading is over, the state is authenticated and the user has the
\* required role, if one is required
C30_AuthConsistent ==
    /\ Consistent(client.auth)
    /\ \A action \in AuthActions : Consistent(AuthReducer(client.auth, action))
    /\ Render(client.auth, client.requiredRole) = "children"
        => /\ ~client.auth.isLoading
           /\ client.auth.isAuthenticated
           /\ client.requiredRole # NoRole
              => RoleOf(client.auth.user) = client.requiredRole

\* a driver logged in and the driver's route shows its children
C30_Witness ==
    /\ client.auth.isAuthenticated
    /\ client.pending = 0
    /\ client.storage = Stringify(client.auth.user)
    /\ client.requiredRole = "driver"
    /\ Render(client.auth, client.requiredRole) = "children"

CooldownRunning == client.bookingState.cooldownRemaining > 0

BookingFree ==
    /\ client.bookingState.cooldownRemaining = 0
    /\ client.bookingState.isBookingAllowed

\* C28: a cooldown that has started leads to a state where nothing remains
\* of it and booking is allowed; what remains is never negative, and grows
\* only when a request is accepted or a reload restores it
C28_CooldownExpires ==
    /\ CooldownRunning ~> BookingFree
    /\ [][/\ client'.bookingState.cooldownRemaining >= 0
          /\ client'.bookingState.cooldownRemaining
                > client.bookingState.cooldownRemaining
             => \/ Answered /\ resp'.op = "request"
                \/ client' = Reloaded(clock')]_vars

\* the timer has brought a cooldown restored half a period late to its end
C28_Witness ==
    /\ BookingFree
    /\ client.booking # NoTime
    /\ clock - client.booking = COOLDOWN_PERIOD + 1
====
